---- MODULE Spec2Model ----
(***************************************************************************)
(* HomeScreen of the on-device chat application, in its two variants:      *)
(*   "app"   src/app/index.tsx                                             *)
(*   "part0" src/unnamed/part_000                                          *)
(*                                                                         *)
(* The React state cells of HomeScreen are the variables.  React commits   *)
(* the state updates of a handler and re-renders before it delivers the    *)
(* next event, so a handler reads the state current when it is invoked;    *)
(* an async handler keeps the values it closed over across its awaits      *)
(* (the record of an in-flight call holds them).  Every await of a         *)
(* file-system, network or engine call is one step of the call, resolved   *)
(* or rejected by the environment.                                         *)
(*                                                                         *)
(* Text is a sequence of tokens; " " is the whitespace token.              *)
(***************************************************************************)
EXTENDS Integers, Sequences, FiniteSets, TLC

\* ------------------------------------------------------------------ bounds
MaxTurns == 3        \* sends are pressed while the round fits in MaxTurns turns
MaxCalls == 2        \* async invocations of sendMessage alive at once
MaxAnims == 2        \* bubble press animations running at once
MaxPrompt == 1       \* quick replies / bubbles the user taps (the first ones)
TotalBytes == 2      \* totalBytesExpectedToWrite of the model file
MaxTransfers == 2    \* a send starts provisioning while fewer transfers were started

\* --------------------------------------------------------------- constants
Null == "null"                     \* the context before setContext
Handle == "llamaContext"
NoError == <<>>                    \* error is null, or <<text>> once set

Variants == {"app", "part0"}

n_predict(v) == IF v = "app" THEN 512 ELSE 100

SystemPrompt(v) ==
    IF v = "app"
    THEN <<"This is a conversation between user and assistant, an AI Therapist chatbot.">>
    ELSE <<"This is a conversation between user and assistant, a friendly chatbot.">>

therapyPrompts ==
    << <<"I'm feeling stressed">>, <<"Can't sleep">>, <<"Need motivation">>,
       <<"Feeling lonely">>, <<"Need calm thoughts">>, <<"Stress relief">>,
       <<"Help me relax">>, <<"Feeling down">> >>

createBubbles == SubSeq(therapyPrompts, 1, 5)

quickActions ==
    << <<"I don't feel well">>, <<"I'm so stressed">>, <<"I struggle with academics">> >>

TimedOutText ==
    <<"Download", "timed out", ". Please check your internet connection and try again.">>
FailedToLoad == <<"Failed to load model">>
FailedToSend == <<"Failed to send message">>

\* what the user types, what the engine answers, what a rejected call carries
Typed == { <<>>, <<" ">>, <<"hi">>, <<" ", "hi", " ">> }
Replies == { <<>>, <<"I hear you.">> }
\* an exception e is <<>> (no message property) or <<e.message>>
Thrown == { <<>>, << <<>> >>, << <<"Network", "error">> >>,
            << <<"The request", "timed out">> >> }

\* ----------------------------------------------------------------- helpers
Min(a, b) == IF a < b THEN a ELSE b

Range(s) == { s[i] : i \in DOMAIN s }

Remove(s, i) == SubSeq(s, 1, i - 1) \o SubSeq(s, i + 1, Len(s))

\* String.prototype.trim
RECURSIVE TrimLeft(_)
TrimLeft(s) == IF s # <<>> /\ Head(s) = " " THEN TrimLeft(Tail(s)) ELSE s

RECURSIVE TrimRight(_)
TrimRight(s) ==
    IF s # <<>> /\ s[Len(s)] = " " THEN TrimRight(SubSeq(s, 1, Len(s) - 1)) ELSE s

trim(s) == TrimRight(TrimLeft(s))

\* e?.message?.includes(tok)
includes(e, tok) == e # <<>> /\ \E i \in DOMAIN e[1] : e[1][i] = tok

\* e.message || fallback
OrElse(e, fallback) == IF e = <<>> \/ e[1] = <<>> THEN fallback ELSE e[1]

\* a setError that stores null
setErrorNull(text) == <<>>

\* setError(text)
setError(text) == <<text>>

Message(r, c) == [role |-> r, content |-> c]

VARIABLES
    variant,            \* which source file is deployed
    messages,           \* useState<Message[]>([])
    inputMessage,       \* useState("")
    error,              \* useState<string | null>(null)
    isProcessing,       \* useState(false)
    context,            \* useState<any>(null)
    downloadProgress,   \* useState<number>(0), as the fraction num/den
    showBubbles,        \* ChatInput: useState(true)           (app only)
    inputFocused,       \* ChatInput: useState(false)          (app only)
    dirExists,          \* the models directory on local storage
    fileState,          \* the model file: "absent", "partial", "present"
    calls,              \* the async sendMessage invocations suspended at an await
    anims,              \* bubble press animations whose callback is pending
    transfers,          \* downloads started since the process started
    last                \* the event that produced this state

vars == <<variant, messages, inputMessage, error, isProcessing, context,
          downloadProgress, showBubbles, inputFocused, dirExists, fileState,
          calls, anims, transfers, last>>

ui == <<showBubbles, inputFocused>>
fs == <<dirExists, fileState, transfers>>

Event(o, r, t) == [op |-> o, res |-> r, text |-> t]

\* the values a render's handlers close over
Closure == [messages |-> messages, inputMessage |-> inputMessage,
            isProcessing |-> isProcessing, context |-> context]

Init ==
    /\ variant \in Variants
    /\ messages = <<>>
    /\ inputMessage = <<>>
    /\ error = NoError
    /\ isProcessing = FALSE
    /\ context = Null
    /\ downloadProgress = [num |-> 0, den |-> 1]
    /\ showBubbles = (variant = "app")
    /\ inputFocused = FALSE
    /\ dirExists \in BOOLEAN
    /\ fileState \in (IF dirExists THEN {"absent", "present"} ELSE {"absent"})
    /\ calls = <<>>
    /\ anims = <<>>
    /\ transfers = 0
    /\ last = Event("start", "ok", <<>>)

\* ------------------------------------------------------------- sendMessage
\* the guard without its isProcessing half
SendRejectedBlankOnly(cl) == trim(cl.inputMessage) = <<>>

\* the guard testing the input without trim()
SendRejectedNoTrim(cl) == cl.inputMessage = <<>> \/ cl.isProcessing

\* if (!inputMessage.trim() || isProcessing) return;
SendRejected(cl) == trim(cl.inputMessage) = <<>> \/ cl.isProcessing

\* the handle test always finding no handle
ContextMissingAlways(cl) == TRUE

\* if (!context): the handle this invocation closed over
ContextMissing(cl) == cl.context = Null

\* const newMessages = [...messages, { role: "user", content: messageToSend }]
NewMessages(cl) == Append(cl.messages, Message("user", cl.inputMessage))

\* the request without the system turn
RequestTranscriptOnly(v, newMessages) ==
    [messages |-> newMessages, n_predict |-> n_predict(v)]

\* the argument of context.completion
Request(v, newMessages) ==
    [messages |-> <<Message("system", SystemPrompt(v))>> \o newMessages,
     n_predict |-> n_predict(v)]

\* the reply appended to the transcript on screen instead of newMessages
CompletionResolvedOnCurrent(c, cur, text) == Append(cur, Message("assistant", text))

\* setMessages([...newMessages, response]); cur is the transcript on screen
CompletionResolved(c, cur, text) == Append(c.newMessages, Message("assistant", text))

\* a catch that takes the user's turn back
CompletionRejectedRollback(c, cur) == c.cl.messages

\* catch of sendMessage: the transcript is not touched
CompletionRejected(c, cur) == cur

\* finally { setIsProcessing(false) } of sendMessage
SendFinally(busy) == FALSE

\* loadModel without its setIsProcessing(true)
LoadStartMissing(busy) == busy

\* setIsProcessing(true), the first statement of loadModel
LoadStart(busy) == TRUE

\* loadModel without its finally
LoadFinallyMissing(busy) == busy

\* finally { setIsProcessing(false) } of loadModel
LoadFinally(busy) == FALSE

\* an invocation suspended inside loadModel / at context.completion: where it
\* is, what it closed over, its newMessages, the bytes its download has
\* written; base remembers the transcript on screen when it was invoked
\* request is what was passed to context.completion
NoRequest == [messages |-> <<>>, n_predict |-> 0]

LoadCall(cl, base) ==
    [pc |-> "dirInfo", cl |-> cl, newMessages |-> <<>>, written |-> 0, base |-> base,
     request |-> NoRequest]
CompletionCall(cl, base) ==
    [pc |-> "completion", cl |-> cl, newMessages |-> NewMessages(cl), written |-> 0,
     base |-> base, request |-> Request(variant, NewMessages(cl))]

LoadPcs == {"dirInfo", "mkdir", "modelInfo", "download", "fileInfo", "loadInfo", "init"}

\* sendMessage up to its first await, run by a handler that closed over cl;
\* inp is the pending input when it is called, op names the handler.
\* Leaves error, context, downloadProgress and local storage alone.
sendMessage(cl, inp, op) ==
    IF SendRejected(cl)
    THEN /\ inputMessage' = inp
         /\ UNCHANGED <<messages, isProcessing, calls>>
         /\ last' = Event(op, "noop", inp)
    ELSE IF ContextMissing(cl)
    THEN \* await loadModel(): setIsProcessing(true), then the first await
         /\ inputMessage' = inp
         /\ isProcessing' = LoadStart(isProcessing)
         /\ calls' = Append(calls, LoadCall(cl, messages))
         /\ UNCHANGED messages
         /\ last' = Event(op, "load", cl.inputMessage)
    ELSE /\ messages' = NewMessages(cl)
         /\ inputMessage' = <<>>
         /\ isProcessing' = TRUE
         /\ calls' = Append(calls, CompletionCall(cl, messages))
         /\ last' = Event(op, "completion", cl.inputMessage)

\* sendMessage after `await loadModel()` has returned: `if (!context) return;`
\* tests the handle the invocation closed over, then the body runs as above.
\* busy is isProcessing as loadModel left it.
SendAfterLoad(i, busy) ==
    LET cl == calls[i].cl IN
    IF ContextMissing(cl)
    THEN /\ calls' = Remove(calls, i)
         /\ isProcessing' = busy
         /\ UNCHANGED <<messages, inputMessage>>
    ELSE /\ messages' = NewMessages(cl)
         /\ inputMessage' = <<>>
         /\ isProcessing' = TRUE
         /\ calls' = [calls EXCEPT ![i] = CompletionCall(cl, calls[i].base)]

\* ----------------------------------------------------------- user's events
\* TextInput onChangeText={setInputMessage}, editable={!isProcessing}
Type(t) ==
    /\ ~isProcessing
    /\ variant = "app" => inputFocused
    /\ t # inputMessage
    /\ inputMessage' = t
    /\ last' = Event("type", "ok", t)
    /\ UNCHANGED <<variant, messages, error, isProcessing, context, downloadProgress,
                   ui, fs, calls, anims>>

\* handleInputFocus
Focus ==
    /\ variant = "app"
    /\ ~isProcessing
    /\ ~inputFocused
    /\ inputFocused' = TRUE
    /\ showBubbles' = FALSE
    /\ last' = Event("focus", "ok", <<>>)
    /\ UNCHANGED <<variant, messages, inputMessage, error, isProcessing, context,
                   downloadProgress, fs, calls, anims>>

\* QuickAction onPress={() => setInputMessage(label)}
QuickAction(q) ==
    /\ variant = "part0"
    /\ inputMessage' = quickActions[q]
    /\ last' = Event("quick", "ok", quickActions[q])
    /\ UNCHANGED <<variant, messages, error, isProcessing, context, downloadProgress,
                   ui, fs, calls, anims>>

\* the send button: onPress={sendMessage}
SendPress ==
    /\ Len(messages) + 2 <= MaxTurns
    /\ Len(calls) < MaxCalls
    /\ (~SendRejected(Closure) /\ ContextMissing(Closure)) => transfers < MaxTransfers
    /\ sendMessage(Closure, inputMessage, "send")
    /\ UNCHANGED <<variant, error, context, downloadProgress, ui, fs, anims>>

\* ActionBubble.animatePress: the animation starts, its callback holds the
\* handlers of the render that was pressed
TapBubble(b) ==
    /\ variant = "app"
    /\ showBubbles /\ ~inputFocused
    /\ Len(anims) < MaxAnims
    /\ Len(messages) + 2 <= MaxTurns
    /\ anims' = Append(anims, [text |-> createBubbles[b], cl |-> Closure])
    /\ last' = Event("tap", "ok", createBubbles[b])
    /\ UNCHANGED <<variant, messages, inputMessage, error, isProcessing, context,
                   downloadProgress, ui, fs, calls>>

\* handleBubblePress, called when the animation ends
handleBubblePress(j) ==
    /\ j \in DOMAIN anims
    /\ Len(calls) < MaxCalls
    /\ showBubbles' = FALSE
    /\ sendMessage(anims[j].cl, anims[j].text, "bubble")
    /\ anims' = Remove(anims, j)
    /\ UNCHANGED <<variant, error, context, downloadProgress, inputFocused, fs>>

\* setInputMessage("") of clearChat (absent in part_000)
ClearedInput(v, inp) == IF v = "app" THEN <<>> ELSE inp

clearChat ==
    /\ messages' = <<>>
    /\ inputMessage' = ClearedInput(variant, inputMessage)
    /\ last' = Event("clearChat", "ok", <<>>)
    /\ UNCHANGED <<variant, error, isProcessing, context, downloadProgress,
                   ui, fs, calls, anims>>

\* --------------------------------------------------------------- loadModel
\* Every step below is the return of one awaited call inside loadModel, for
\* the invocation calls[i].  loadModel leaves the transcript and the pending
\* input alone; SendAfterLoad is the caller resuming.

Goto(i, pc) == [calls EXCEPT ![i].pc = pc]

\* setError(e.message), without the fallback text
LoadErrorNoFallback(e) == e

\* the outer catch: setError(e.message || "Failed to load model")
LoadError(e) == setError(OrElse(e, FailedToLoad))

\* the inner catch never taking its timeout branch
IsTimeoutNever(e) == FALSE

\* the inner catch: downloadError?.message?.includes("timed out")
IsTimeout(e) == includes(e, "timed out")

\* the quotient taken the wrong way round
ProgressInverted(written, total) == [num |-> total, den |-> written]

\* progress = totalBytesWritten / totalBytesExpectedToWrite
Progress(written, total) == [num |-> written, den |-> total]

\* await FileSystem.getInfoAsync(modelDirectory) resolves
DirInfo(i) ==
    /\ i \in DOMAIN calls /\ calls[i].pc = "dirInfo"
    /\ calls' = Goto(i, IF ~dirExists THEN "mkdir" ELSE "modelInfo")
    /\ last' = Event("dirInfo", "ok", <<>>)
    /\ UNCHANGED <<variant, messages, inputMessage, error, isProcessing, context,
                   downloadProgress, ui, fs, anims>>

\* await FileSystem.makeDirectoryAsync(modelDirectory, {intermediates: true}) resolves
MakeDirectory(i) ==
    /\ i \in DOMAIN calls /\ calls[i].pc = "mkdir"
    /\ dirExists' = TRUE
    /\ calls' = Goto(i, "modelInfo")
    /\ last' = Event("mkdir", "ok", <<>>)
    /\ UNCHANGED <<variant, messages, inputMessage, error, isProcessing, context,
                   downloadProgress, ui, fileState, transfers, anims>>

\* modelInfo.exists taken as true whatever is on disk
FileExistsAlways(state) == TRUE

\* modelInfo.exists taken as false whatever is on disk
FileExistsNever(state) == FALSE

\* the exists field of getInfoAsync(localModelPath): a file is at the path,
\* complete or not
FileExists(state) == state # "absent"

\* await FileSystem.getInfoAsync(localModelPath) resolves; if the file is not
\* there the download is created and started
ModelInfo(i) ==
    /\ i \in DOMAIN calls /\ calls[i].pc = "modelInfo"
    /\ calls' = [calls EXCEPT ![i].pc = IF ~FileExists(fileState) THEN "download" ELSE "loadInfo",
                              ![i].written = 0]
    /\ transfers' = IF ~FileExists(fileState) THEN transfers + 1 ELSE transfers
    /\ last' = Event("modelInfo", "ok", <<>>)
    /\ UNCHANGED <<variant, messages, inputMessage, error, isProcessing, context,
                   downloadProgress, ui, dirExists, fileState, anims>>

\* the transfer writes k more bytes and the progress callback runs
DownloadChunk(i, k) ==
    /\ i \in DOMAIN calls /\ calls[i].pc = "download"
    /\ calls[i].written + k <= TotalBytes
    /\ calls' = [calls EXCEPT ![i].written = @ + k]
    /\ fileState' = "partial"
    /\ downloadProgress' = Progress(calls[i].written + k, TotalBytes)
    /\ last' = Event("chunk", "ok", <<>>)
    /\ UNCHANGED <<variant, messages, inputMessage, error, isProcessing, context,
                   ui, dirExists, transfers, anims>>

\* await downloadResumable.downloadAsync() resolves
Download(i) ==
    /\ i \in DOMAIN calls /\ calls[i].pc = "download"
    /\ calls[i].written = TotalBytes
    /\ fileState' = "present"
    /\ calls' = Goto(i, "fileInfo")
    /\ last' = Event("download", "ok", <<>>)
    /\ UNCHANGED <<variant, messages, inputMessage, error, isProcessing, context,
                   downloadProgress, ui, dirExists, transfers, anims>>

\* await downloadResumable.downloadAsync() rejects with exception m; the
\* platform keeps or removes what was written.  A timeout sets the fixed
\* message, sets isProcessing false and returns; anything else is rethrown to
\* the outer catch.  finally runs on both paths.
DownloadRejected(i, m, keep) ==
    /\ i \in DOMAIN calls /\ calls[i].pc = "download"
    /\ fileState' = IF keep THEN fileState ELSE "absent"
    /\ error' = IF IsTimeout(m) THEN setError(TimedOutText) ELSE LoadError(m)
    /\ SendAfterLoad(i, LoadFinally(IF IsTimeout(m) THEN FALSE ELSE isProcessing))
    /\ last' = Event("download", IF IsTimeout(m) THEN "timeout" ELSE "fail", OrElse(m, <<>>))
    /\ UNCHANGED <<variant, context, downloadProgress, ui, dirExists, transfers, anims>>

\* await FileSystem.getInfoAsync(localModelPath, {md5: true}) resolves
FileInfo(i) ==
    /\ i \in DOMAIN calls /\ calls[i].pc = "fileInfo"
    /\ calls' = Goto(i, "loadInfo")
    /\ last' = Event("fileInfo", "ok", <<>>)
    /\ UNCHANGED <<variant, messages, inputMessage, error, isProcessing, context,
                   downloadProgress, ui, fs, anims>>

\* await loadLlamaModelInfo(localModelPath) resolves
LoadModelInfo(i) ==
    /\ i \in DOMAIN calls /\ calls[i].pc = "loadInfo"
    /\ calls' = Goto(i, "init")
    /\ last' = Event("loadInfo", "ok", <<>>)
    /\ UNCHANGED <<variant, messages, inputMessage, error, isProcessing, context,
                   downloadProgress, ui, fs, anims>>

\* await initLlama({...}) resolves: setContext(llamaContext), finally
InitLlama(i) ==
    /\ i \in DOMAIN calls /\ calls[i].pc = "init"
    /\ context' = Handle
    /\ SendAfterLoad(i, LoadFinally(isProcessing))
    /\ last' = Event("init", "ok", <<>>)
    /\ UNCHANGED <<variant, error, downloadProgress, ui, fs, anims>>

\* any awaited call of loadModel other than the download rejects with
\* message m: the outer catch, finally
LoadRejected(i, m) ==
    /\ i \in DOMAIN calls /\ calls[i].pc \in LoadPcs \ {"download"}
    /\ error' = LoadError(m)
    /\ SendAfterLoad(i, LoadFinally(isProcessing))
    /\ last' = Event(calls[i].pc, "fail", OrElse(m, <<>>))
    /\ UNCHANGED <<variant, context, downloadProgress, ui, fs, anims>>

\* ------------------------------------------------------ context.completion
\* await context.completion(...) resolves with {text}
Completion(i, text) ==
    /\ i \in DOMAIN calls /\ calls[i].pc = "completion"
    /\ messages' = CompletionResolved(calls[i], messages, text)
    /\ isProcessing' = SendFinally(isProcessing)
    /\ calls' = Remove(calls, i)
    /\ last' = Event("completion", "ok", text)
    /\ UNCHANGED <<variant, inputMessage, error, context, downloadProgress, ui, fs, anims>>

\* await context.completion(...) rejects with exception m
CompletionFailed(i, m) ==
    /\ i \in DOMAIN calls /\ calls[i].pc = "completion"
    /\ messages' = CompletionRejected(calls[i], messages)
    /\ error' = setError(OrElse(m, FailedToSend))
    /\ isProcessing' = SendFinally(isProcessing)
    /\ calls' = Remove(calls, i)
    /\ last' = Event("completion", "fail", OrElse(m, <<>>))
    /\ UNCHANGED <<variant, inputMessage, context, downloadProgress, ui, fs, anims>>

\* ----------------------------------------------------------- specification
Awaited ==
    \E i \in 1..MaxCalls :
        \/ DirInfo(i)
        \/ MakeDirectory(i)
        \/ ModelInfo(i)
        \/ \E k \in 1..TotalBytes : DownloadChunk(i, k)
        \/ Download(i)
        \/ \E m \in Thrown, keep \in BOOLEAN : DownloadRejected(i, m, keep)
        \/ FileInfo(i)
        \/ LoadModelInfo(i)
        \/ InitLlama(i)
        \/ \E m \in Thrown : LoadRejected(i, m)
        \/ \E text \in Replies : Completion(i, text)
        \/ \E m \in Thrown : CompletionFailed(i, m)

Next ==
    \/ \E t \in Typed : Type(t)
    \/ Focus
    \/ \E q \in 1..Min(MaxPrompt, Len(quickActions)) : QuickAction(q)
    \/ SendPress
    \/ \E b \in 1..Min(MaxPrompt, Len(createBubbles)) : TapBubble(b)
    \/ \E j \in 1..MaxAnims : handleBubblePress(j)
    \/ clearChat
    \/ Awaited

Spec == Init /\ [][Next]_vars

\* every awaited call returns (resolves or rejects)
FairSpec == Spec /\ WF_vars(Awaited)

\* ------------------------------------------------------------------ claims
InFlight(pcs) == { i \in DOMAIN calls : calls[i].pc \in pcs }

NonEmpty(e) == e # NoError /\ e[1] # <<>>

\* C1: in every reachable state at most one engine completion call is in
\* flight, whatever the order of send presses, bubble callbacks, clearChat
\* presses and returns of the awaited calls.
C1_SingleFlight == Cardinality(InFlight({"completion"})) <= 1

\* a send with sendable input was pressed while a completion was in flight
C1_Witness ==
    /\ Cardinality(InFlight({"completion"})) = 1
    /\ last.op = "send" /\ last.res = "noop"
    /\ trim(inputMessage) # <<>>

\* C2: a sendMessage invoked while isProcessing is true changes nothing: the
\* transcript, the error, the pending input, the handle and isProcessing stay
\* as they are and no call (provisioning or completion) is started.  For the
\* invocation made by handleBubblePress the pending input is the one that
\* handler has just set.
C2_BusySendIsNoOp ==
    [][ /\ (last'.op = "send" /\ isProcessing)
            => UNCHANGED <<messages, error, inputMessage, context, isProcessing, calls>>
        /\ (last'.op = "bubble" /\ isProcessing)
            => /\ UNCHANGED <<messages, error, context, isProcessing, calls>>
               /\ inputMessage' = last'.text ]_vars

\* a send with sendable input was pressed while provisioning was running
C2_Witness ==
    /\ last.op = "send" /\ last.res = "noop"
    /\ isProcessing
    /\ trim(inputMessage) # <<>>
    /\ InFlight(LoadPcs) # {}

\* C3: a send pressed while the pending input is empty or only whitespace
\* changes neither the transcript nor isProcessing and starts no call, with or
\* without a handle.
C3_BlankSendIsNoOp ==
    [][ (last'.op = "send" /\ trim(inputMessage) = <<>>)
            => UNCHANGED <<messages, isProcessing, calls>> ]_vars

\* a whitespace-only send pressed while idle and without a handle
C3_Witness ==
    /\ last.op = "send" /\ last.res = "noop"
    /\ inputMessage # <<>> /\ trim(inputMessage) = <<>>
    /\ ~isProcessing
    /\ context = Null

\* C4: a send with sendable input and no handle awaits provisioning, and when
\* provisioning succeeds that same invocation issues one completion request
\* (the state after initLlama resolved has that request in flight).
C4_SendCompletesAfterProvisioning ==
    (last.op = "init" /\ last.res = "ok")
        => Cardinality(InFlight({"completion"})) = 1

\* C5: when the completion call of a send of text t resolves with text r, the
\* transcript becomes the transcript on screen when the send was pressed,
\* followed by {user, t} and {assistant, r}.
C5_AppendOrdering ==
    [][ (last'.op = "completion" /\ last'.res = "ok")
            => \E i \in InFlight({"completion"}) :
                  /\ calls' = Remove(calls, i)
                  /\ messages' = calls[i].base
                                   \o << Message("user", calls[i].cl.inputMessage),
                                         Message("assistant", last'.text) >> ]_vars

\* a second round has resolved with a non-empty reply
C5_Witness ==
    /\ last.op = "completion" /\ last.res = "ok" /\ last.text # <<>>
    /\ Len(messages) = 3
    /\ messages[3] = Message("assistant", last.text)
    /\ messages[2].role = "user"

\* C6: when the completion call rejects, the transcript is left as it is (no
\* assistant turn, the user turn stays): it is the transcript of the send plus
\* the one user turn, or empty if clearChat ran meanwhile; the error is set to
\* a non-empty text and isProcessing is false.
C6_PartialFailure ==
    [][ (last'.op = "completion" /\ last'.res = "fail")
            => \E i \in InFlight({"completion"}) :
                  /\ calls' = Remove(calls, i)
                  /\ messages' = messages
                  /\ messages \in { Append(calls[i].base,
                                           Message("user", calls[i].cl.inputMessage)),
                                    <<>> }
                  /\ NonEmpty(error')
                  /\ ~isProcessing' ]_vars

\* a completion rejected without a message: the user turn is last, the
\* fallback text is shown
C6_Witness ==
    /\ last.op = "completion" /\ last.res = "fail"
    /\ messages # <<>> /\ messages[Len(messages)].role = "user"
    /\ error = setError(FailedToSend)
    /\ ~isProcessing

\* C7: whenever no call is running isProcessing is false, and (the awaited
\* calls returning) isProcessing = TRUE leads to isProcessing = FALSE.
C7_BusyReleased ==
    /\ [](calls = <<>> => ~isProcessing)
    /\ (isProcessing ~> ~isProcessing)

\* a provisioning run ended by a timed-out download
C7_Witness ==
    /\ last.op = "download" /\ last.res = "timeout"
    /\ calls = <<>>
    /\ ~isProcessing

\* C8: a send that runs provisioning never touches the transcript, and when
\* provisioning fails (at any awaited call) a non-empty error is set, the
\* invocation ends, the transcript is what it was at the send and no
\* completion call is in flight.
C8_ProvisioningFailureAborts ==
    [][ /\ (last'.res = "load" \/ last'.op \in LoadPcs \cup {"chunk"})
            => messages' = messages
        /\ (last'.op \in LoadPcs /\ last'.res \in {"fail", "timeout"})
            => \E i \in InFlight(LoadPcs) :
                  /\ calls' = Remove(calls, i)
                  /\ messages' = calls[i].base
                  /\ NonEmpty(error')
                  /\ InFlight({"completion"})' = {} ]_vars

\* engine initialisation failed without a message; the text of the send is
\* still pending
C8_Witness ==
    /\ last.op = "init" /\ last.res = "fail"
    /\ error = setError(FailedToLoad)
    /\ trim(inputMessage) # <<>>
    /\ calls = <<>>

\* C9: clearChat leaves the transcript empty and the pending input empty, in
\* both variants.
C9_ClearChatResets ==
    last.op = "clearChat" => (messages = <<>> /\ inputMessage = <<>>)

\* C10: every change of the transcript appends one user turn, or appends one
\* assistant turn right after a user turn, or is clearChat emptying it.
C10_TranscriptChanges ==
    [][ messages' # messages
            => \/ \E t \in Typed \cup Range(createBubbles) \cup Range(quickActions) :
                     messages' = Append(messages, Message("user", t))
               \/ /\ \E r \in Replies : messages' = Append(messages, Message("assistant", r))
                  /\ messages # <<>> /\ messages[Len(messages)].role = "user"
               \/ (messages' = <<>> /\ last'.op = "clearChat") ]_vars

\* C11: once the handle is set it is never changed or reset (not by
\* clearChat, not by anything else), and while it is set no provisioning run
\* exists or is started: a later send goes straight to the completion call.
C11_HandleKept ==
    [][ context # Null
            => /\ context' = context
               /\ InFlight(LoadPcs)' = {}
               /\ last'.res # "load" ]_vars

\* a send that went to the completion call on a transcript emptied by
\* clearChat: an earlier completion had failed, which leaves a user turn
C11_Witness ==
    /\ context = Handle
    /\ last.op = "send" /\ last.res = "completion"
    /\ error = setError(FailedToSend)
    /\ Len(messages) = 1
    /\ InFlight(LoadPcs) = {}

\* C12 as stated: the network transfer is performed at most once in a process.
C12_TransferAtMostOnce == transfers <= 1

\* C12 as amended: a provisioning run starts a download only when no file is
\* at the local path; a file that is complete stays, so after a completed
\* transfer no run starts another; and once the handle is set a send runs no
\* provisioning at all.
C12_TransferOnlyWhenAbsent ==
    [][ /\ transfers' # transfers
            => /\ ~FileExists(fileState)
               /\ transfers' = transfers + 1
               /\ last'.op = "modelInfo"
               /\ InFlight({"download"})' # {}
        /\ fileState = "present" => (fileState' = "present" /\ transfers' = transfers)
        /\ context # Null => (transfers' = transfers /\ InFlight(LoadPcs)' = {}) ]_vars

\* a run of this process completed the transfer and failed later; the next
\* run found the file and went to the metadata read without a download
C12_Witness ==
    /\ last.op = "modelInfo"
    /\ transfers = 1
    /\ fileState = "present"
    /\ InFlight({"loadInfo"}) # {}
    /\ InFlight({"download"}) = {}

\* C13: when the download rejects with a message that contains "timed out",
\* the fixed time-out text is recorded, the run ends there (no metadata read,
\* no engine initialisation), the handle is absent and isProcessing is false;
\* when it rejects otherwise an error is recorded, the handle is absent and
\* no transfer is running or restarted by the failure.
C13_DownloadFailure ==
    [][ (last'.op = "download" /\ last'.res # "ok")
            => \E i \in InFlight({"download"}) :
                  /\ calls' = Remove(calls, i)
                  /\ InFlight(LoadPcs \cup {"completion"})' = {}
                  /\ transfers' = transfers
                  /\ context' = Null
                  /\ ~isProcessing'
                  /\ IF "timed out" \in Range(last'.text)
                     THEN error' = << <<"Download", "timed out",
                              ". Please check your internet connection and try again.">> >>
                     ELSE NonEmpty(error') /\ error' # setError(TimedOutText) ]_vars

\* a transfer that timed out after it had written part of the file
C13_Witness ==
    /\ last.op = "download" /\ "timed out" \in Range(last.text)
    /\ error = setError(TimedOutText)
    /\ fileState = "partial"
    /\ calls = <<>>
    /\ context = Null

\* fractions num/den with den > 0, compared by cross-multiplication
FracLeq(a, b) == a.num * b.den <= b.num * a.den
FracEq(a, b) == a.num * b.den = b.num * a.den

\* C14: every progress callback of a download of N = TotalBytes bytes
\* publishes downloadProgress = bytesWritten / N, which is not below the value
\* the same download published before, lies in [0, 1], and is 1 exactly when
\* all N bytes are written; between callbacks the published value stays.
C14_ProgressMonotone ==
    [][ /\ last'.op = "chunk"
            => \E i \in InFlight({"download"}) :
                  LET before == [num |-> calls[i].written, den |-> TotalBytes]
                      after == [num |-> calls'[i].written, den |-> TotalBytes]
                  IN /\ calls[i].written <= calls'[i].written
                     /\ downloadProgress'.den > 0
                     /\ FracEq(downloadProgress', after)
                     /\ FracLeq(before, downloadProgress')
                     /\ FracLeq([num |-> 0, den |-> 1], downloadProgress')
                     /\ FracLeq(downloadProgress', [num |-> 1, den |-> 1])
                     /\ FracEq(downloadProgress', [num |-> 1, den |-> 1])
                            <=> calls'[i].written = TotalBytes
        /\ last'.op # "chunk" => downloadProgress' = downloadProgress ]_vars

\* a callback in the middle of the transfer: some bytes written, not all
C14_Witness ==
    /\ last.op = "chunk"
    /\ \E i \in InFlight({"download"}) :
          /\ 0 < calls[i].written /\ calls[i].written < TotalBytes
          /\ downloadProgress = [num |-> calls[i].written, den |-> TotalBytes]

\* the order of the awaited calls of one provisioning run
StepOrder ==
    { <<"dirInfo", "mkdir">>, <<"dirInfo", "modelInfo">>, <<"mkdir", "modelInfo">>,
      <<"modelInfo", "download">>, <<"modelInfo", "loadInfo">>,
      <<"download", "fileInfo">>, <<"fileInfo", "loadInfo">>, <<"loadInfo", "init">> }

\* C15: a provisioning run goes through directory check (and creation if the
\* directory is absent), file check, download only if no file is there,
\* metadata read, engine initialisation, in this order: initLlama is called
\* only from a successful metadata read and with a file at the local path, the
\* handle is set only by a resolved initLlama, and a rejected directory
\* creation, download or metadata read ends the run with the handle absent.
C15_ProvisioningOrder ==
    [][ /\ \A i \in DOMAIN calls \cap DOMAIN calls' :
              (calls[i].pc \in LoadPcs /\ calls'[i].pc # calls[i].pc)
                  => /\ \/ <<calls[i].pc, calls'[i].pc>> \in StepOrder
                        \/ Len(calls') < Len(calls)
                     /\ calls'[i].pc = "mkdir" => ~dirExists
                     /\ calls'[i].pc = "download" => fileState = "absent"
                     /\ calls'[i].pc = "init"
                            => /\ last'.op = "loadInfo" /\ last'.res = "ok"
                               /\ fileState' # "absent"
                               /\ dirExists'
        /\ \A i \in InFlight({"init"}) : fileState' # "absent"
        /\ context' # context => (last'.op = "init" /\ last'.res = "ok")
        /\ (last'.op \in {"mkdir", "download", "loadInfo"} /\ last'.res # "ok")
              => /\ InFlight(LoadPcs)' = {}
                 /\ context' = Null ]_vars

\* a run that created the directory and downloaded the file is at initLlama
C15_Witness ==
    /\ last.op = "loadInfo" /\ last.res = "ok"
    /\ \E i \in InFlight({"init"}) : calls[i].written = TotalBytes
    /\ fileState = "present"
    /\ dirExists
    /\ context = Null

\* C16: the request of every completion call holds one system turn with the
\* fixed text of the variant, then the transcript on screen at the send in
\* its order, then the new user turn; n_predict is 512 in index.tsx and 100 in
\* part_000; the transcript never holds a system turn.
C16_RequestShape ==
    [][ /\ last'.res = "completion"
            => \E i \in InFlight({"completion"})' :
                  LET rq == calls'[i].request IN
                  /\ i \notin InFlight({"completion"})
                  /\ rq.messages = << [role |-> "system", content |-> SystemPrompt(variant)] >>
                                     \o messages
                                     \o << [role |-> "user", content |-> last'.text] >>
                  /\ Cardinality({ k \in DOMAIN rq.messages :
                                       rq.messages[k].role = "system" }) = 1
                  /\ Tail(rq.messages) = messages'
                  /\ rq.n_predict = (IF variant = "app" THEN 512 ELSE 100)
        /\ \A i \in InFlight({"completion"}) :
              i \in InFlight({"completion"})' => calls'[i].request = calls[i].request
        /\ \A k \in DOMAIN messages' : messages'[k].role \in {"user", "assistant"} ]_vars

\* a request that carries an earlier turn before the new user turn
C16_Witness ==
    /\ last.res = "completion"
    /\ \E i \in InFlight({"completion"}) :
          /\ Len(calls[i].request.messages) = 3
          /\ calls[i].request.messages[1].role = "system"
          /\ calls[i].request.messages[3] = [role |-> "user", content |-> last.text]

\* C17: isProcessing is true from the start of a provisioning run until the
\* run ends, a send pressed during the run is rejected, and at most one
\* provisioning run and at most one download are in flight.
C17_ProvisioningSingleFlight ==
    /\ [](InFlight(LoadPcs) # {} => isProcessing)
    /\ [](Cardinality(InFlight(LoadPcs)) <= 1)
    /\ [](Cardinality(InFlight({"download"})) <= 1)
    /\ [][ (last'.op = "send" /\ InFlight(LoadPcs) # {})
               => (last'.res = "noop" /\ UNCHANGED <<messages, isProcessing, calls, transfers>>)
         ]_vars

\* a send with sendable input pressed, and rejected, while the transfer was
\* under way
C17_Witness ==
    /\ last.op = "send" /\ last.res = "noop"
    /\ trim(inputMessage) # <<>>
    /\ isProcessing
    /\ \E i \in InFlight({"download"}) : calls[i].written > 0

\* what a failure shows: the fixed text for a timed-out download, else the
\* message of the exception, else the fallback of the handler
Shown(ev) ==
    IF ev.op = "download" /\ "timed out" \in Range(ev.text)
    THEN <<"Download", "timed out", ". Please check your internet connection and try again.">>
    ELSE IF ev.text # <<>> THEN ev.text
    ELSE IF ev.op = "completion" THEN <<"Failed to send message">>
    ELSE <<"Failed to load model">>

\* C18: error holds no message or exactly one; a failure replaces whatever
\* was there by its own message; every other step leaves error as it is, so
\* an error once set stays set (after a later successful provisioning, a
\* later successful send, clearChat).
C18_ErrorSticky ==
    /\ [](Len(error) <= 1)
    /\ [][ /\ last'.res \in {"fail", "timeout"} => error' = <<Shown(last')>>
           /\ last'.res \notin {"fail", "timeout"} => error' = error
           /\ error # NoError => error' # NoError ]_vars

\* the error of a failed provisioning run is still there after a later run
\* succeeded and a send got its reply
C18_Witness ==
    /\ last.op = "completion" /\ last.res = "ok"
    /\ error = setError(FailedToLoad)
    /\ context = Handle
    /\ messages # <<>> /\ messages[Len(messages)].role = "assistant"

====
